---- MODULE Spec2Model ----
(***************************************************************************)
(* Model of the AI image variations generator: the variation orchestrator  *)
(* of app.py (render_transform / render_results over st.session_state) and *)
(* the six backend adapters under utils/.                                  *)
(***************************************************************************)
EXTENDS Integers, Sequences, FiniteSets, TLC

(***************************************************************************)
(* Bounds of the model and constants of the program.                       *)
(***************************************************************************)
\* number of Transform clicks explored in one session
MaxBatches == 2
\* "How many variations?" slider, app.py:113-114
min_value == 1
max_value == 4

None == "None"

\* the selectbox options of render_sidebar (app.py:64-71), without the emoji
platform_options ==
    {"Local GPU", "Leonardo.ai", "DeepAI", "Hugging Face", "Replicate", "Stability AI"}

\* uploaded files seen by the file_uploader (None: nothing uploaded or invalid)
Uploads == {"imgA", "imgB"}

VARIABLES
    \* ---- st.session_state (app.py:36-47) ----
    transformed_images,   \* list of result images
    original_image,       \* last uploaded image or None
    transformation_done,  \* flag
    last_metadata,        \* dict; the empty dict before the first stored batch
    platform_settings,    \* dict written by render_sidebar, app.py:153-214
    \* ---- the user and the random generator ----
    choices,              \* which sidebar values and seeds may occur
    \* ---- one script run of main() ----
    sidebar,              \* what render_sidebar returned to the run with the click
    seed,                 \* local of the loop, app.py:318
    kwargs,               \* index -> keyword arguments of the call issued for it
    pc,                   \* position of the script run
    image,                \* the uploaded image handed to render_transform
    platform,             \* chosen platform
    num_variations,       \* chosen count
    i,                    \* loop index of render_transform
    generated_images,     \* local accumulator of render_transform
    \* ---- what the page shows ----
    rendered,             \* images drawn by render_results in the last run
    error,                \* text of st.error in the last run, or None
    \* ---- history of the current batch ----
    batch,                \* number of Transform clicks so far
    issued,               \* index -> number of adapter calls issued for it
    returned,             \* index -> "none" | "success" | "failure" | "raised"
    inflight,             \* indices whose adapter call has not returned yet
    \* ---- one process calling one backend adapter ----
    handler,              \* the adapter module in use (app.py:276-293)
    keys,                 \* adapters whose credential is set in the environment
    reported,             \* adapter whose missing credential was reported before
                          \* the platform was changed, or None
    apc,                  \* position inside the adapter's transform_image
    call,                 \* arguments of the current / last call
    style_config,         \* the style of a call made through transform_with_style
    ret,                  \* what the last call returned
    sent,                 \* requests sent to the backend during the call
    resp,                 \* what the backend answered to a call made in one step
    leo,                  \* locals and counters of the Leonardo.ai poll loop
    hf,                   \* locals and counters of the Hugging Face attempts
    \* ---- utils/local_inference_handler.py ----
    cuda,                 \* torch.cuda.is_available()
    _device,              \* module global, local_inference_handler.py:21
    _pipeline,            \* module global, local_inference_handler.py:20
    threads,              \* the threads that call the local adapter
    loc,                  \* thread -> frame of its transform_image call
    calls,                \* local transform_image calls entered so far
    constructions,        \* pipelines built by from_pretrained so far
    unloads               \* unload_pipeline calls so far

orchVars == <<transformed_images, original_image, transformation_done, last_metadata,
              pc, image, platform, num_variations, i, generated_images,
              rendered, error, batch, issued, returned, inflight,
              platform_settings, choices, sidebar, seed, kwargs>>

cloudVars == <<apc, call, ret, sent, resp, leo, hf>>
localVars == <<cuda, _device, _pipeline, threads, loc, calls, constructions, unloads>>
processVars == <<handler, keys, reported, style_config>>
adapterVars == <<processVars, cloudVars, localVars>>

vars == <<orchVars, adapterVars>>

Indices == 0 .. (max_value - 1)

\* the empty dict {}
EmptyDict == [k \in {} |-> None]

\* the image returned by the adapter call for variation idx of batch b
ResultImage(b, idx, src) == [batch |-> b, idx |-> idx, src |-> src]

(***************************************************************************)
(* init_session_state, app.py:36-47                                        *)
(***************************************************************************)
init_session_state ==
    /\ transformed_images = <<>>
    /\ original_image = None
    /\ transformation_done = FALSE
    /\ platform_settings = EmptyDict
    /\ last_metadata = EmptyDict

\* no call was issued for the index
NoCall == [none |-> TRUE]

\* no style is selected (style_config = None, app.py:126), or the call
\* was not made through transform_with_style
NoStyle == [none |-> TRUE]

\* config/style_presets.py:9-13, the texts shortened
OilPainting ==
    [prompt |-> "oil painting", strength |-> 40, negative_prompt |-> "photograph"]

\* the values of the Platform Settings expander, app.py:153-214; the first
\* of each platform holds the defaults of the widgets
settings_options(p) ==
    CASE p = "Local GPU" ->
           <<[steps |-> 30, guidance_scale |-> 750, scheduler |-> "DPMSolverMultistep"],
             [steps |-> 50, guidance_scale |-> 1500, scheduler |-> "DDIM"]>>
      [] p = "Leonardo.ai" ->
           <<[model |-> "phoenix", steps |-> 30, guidance_scale |-> 700],
             [model |-> "diffusion_xl", steps |-> 50, guidance_scale |-> 1000]>>
      [] p = "Hugging Face" ->
           <<[model |-> "stabilityai/stable-diffusion-xl-refiner-1.0"],
             [model |-> "stabilityai/stable-diffusion-2-1"]>>
      [] p = "Stability AI" ->
           <<[engine |-> "stable-diffusion-xl-1024-v1-0", steps |-> 50, cfg_scale |-> 1200],
             [engine |-> "stable-diffusion-xl-1024-v1-0", steps |-> 30, cfg_scale |-> 700]>>
      [] p = "Replicate" ->
           <<[version |-> "stability-ai/sdxl:..."], [version |-> "stability-ai/sdxl:..."]>>
      [] OTHER -> <<EmptyDict, EmptyDict>>

\* the return value of render_sidebar (app.py:216) with the platform
\* settings it stored; in hundredths
SidebarValues(p, n, mode, style, prompt, negative, strength, settings) ==
    [platform |-> p, num_variations |-> n, mode |-> mode, style_config |-> style,
     custom_prompt |-> prompt, negative_prompt |-> negative, strength |-> strength,
     settings |-> settings]

\* every platform and count, custom prompt mode with the widgets' defaults
PlainChoices ==
    [sidebars |-> {SidebarValues(p, n, "Custom Prompt", NoStyle, "", "", 60,
                                 settings_options(p)[1]) :
                       p \in platform_options, n \in min_value .. max_value},
     seeds |-> {1}]

\* two platforms, both modes, default and changed platform settings, two seeds
SettingsChoices ==
    [sidebars |->
        UNION {{SidebarValues(p, n, "Preset Style", OilPainting, "", "", 60,
                              settings_options(p)[k]),
                SidebarValues(p, n, "Custom Prompt", NoStyle, "watercolor", "blurry", 60,
                              settings_options(p)[k]),
                SidebarValues(p, n, "Custom Prompt", NoStyle, "", "", 30,
                              settings_options(p)[k])} :
               p \in {"Local GPU", "Stability AI"},
               n \in min_value .. (max_value - 1),
               k \in {1, 2}},
     seeds |-> {1, 2}]

\* the sidebar values and seeds of an environment
ChoicesOf(c) == IF c = "settings" THEN SettingsChoices ELSE PlainChoices

OrchStart ==
    /\ init_session_state
    /\ sidebar = SidebarValues("Local GPU", min_value, "Custom Prompt", NoStyle, "", "", 60,
                               settings_options("Local GPU")[1])
    /\ seed = 0
    /\ kwargs = [k \in Indices |-> NoCall]
    /\ pc = "idle"
    /\ image = None
    /\ platform = "Local GPU"
    /\ num_variations = min_value
    /\ i = 0
    /\ generated_images = <<>>
    /\ rendered = <<>>
    /\ error = None
    /\ batch = 0
    /\ issued = [k \in Indices |-> 0]
    /\ returned = [k \in Indices |-> "none"]
    /\ inflight = {}

OrchInit ==
    /\ OrchStart
    /\ choices = "plain"

\* app.py:276-293: platform_name of the handler chosen for the selectbox option
platform_name(p) ==
    CASE p = "Hugging Face" -> "Hugging Face"
      [] p = "Leonardo.ai"  -> "Leonardo.ai"
      [] p = "DeepAI"       -> "DeepAI"
      [] p = "Replicate"    -> "Replicate"
      [] p = "Stability AI" -> "Stability AI"
      [] p = "Local GPU"    -> "Local GPU"
      [] OTHER              -> None

\* app.py:366: what render_results draws
ResultsShown ==
    IF transformation_done /\ transformed_images # <<>> THEN transformed_images ELSE <<>>

sessionVars == <<transformed_images, original_image, transformation_done, last_metadata>>
histVars == <<batch, issued, returned, inflight>>
inputVars == <<platform_settings, choices, sidebar, seed, kwargs>>

(***************************************************************************)
(* A script run without a click on Transform (app.py:457-482): the upload  *)
(* is stored and the stored results are drawn again.                       *)
(***************************************************************************)
Rerun(up) ==
    /\ pc = "idle"
    /\ original_image' = IF up # None THEN up ELSE original_image
    /\ rendered' = IF up # None THEN ResultsShown ELSE <<>>
    /\ error' = None
    /\ UNCHANGED <<transformed_images, transformation_done, last_metadata, pc, image,
                   platform, num_variations, i, generated_images, histVars, inputVars>>
    /\ UNCHANGED adapterVars

(***************************************************************************)
(* A script run with a click on Transform: render_main_content stores the  *)
(* upload (app.py:239), render_transform starts (app.py:259-270).          *)
(***************************************************************************)
ClickTransform(up, sb) ==
    /\ pc = "idle"
    /\ batch < MaxBatches
    /\ original_image' = up
    /\ image' = up
    /\ sidebar' = sb
    /\ platform' = sb.platform
    /\ num_variations' = sb.num_variations
    /\ platform_settings' = sb.settings
    /\ seed' = 0
    /\ kwargs' = [k \in Indices |-> NoCall]
    /\ choices' = choices
    /\ pc' = "import"
    /\ error' = None
    /\ rendered' = <<>>
    /\ batch' = batch + 1
    /\ issued' = [k \in Indices |-> 0]
    /\ returned' = [k \in Indices |-> "none"]
    /\ inflight' = {}
    /\ i' = 0
    /\ generated_images' = <<>>
    /\ UNCHANGED <<transformed_images, transformation_done, last_metadata>>
    /\ UNCHANGED adapterVars

\* app.py:276-309: the handler module is imported (an import may raise) and
\* the accumulator is created
ImportHandler(ok) ==
    /\ pc = "import"
    /\ pc' = IF ok /\ platform_name(platform) # None THEN "loop" ELSE "except"
    /\ generated_images' = <<>>
    /\ i' = 0
    /\ UNCHANGED <<sessionVars, image, platform, num_variations, rendered, error, histVars,
                   inputVars>>
    /\ UNCHANGED adapterVars

\* app.py:311-326: the loop head issues the adapter call for index i
CallGuard == pc = "loop" /\ i < num_variations

\* utils/image_loader.py:50-56 image_to_bytes, called at app.py:268: the PNG
\* encoding of the image
image_to_bytes(img) == [png |-> img]

\* app.py:300-306
used_prompt(sb) ==
    IF sb.mode = "Preset Style" /\ sb.style_config # NoStyle
    THEN sb.style_config.prompt ELSE sb.custom_prompt
used_negative_prompt(sb) ==
    IF sb.mode = "Preset Style" /\ sb.style_config # NoStyle
    THEN (IF "negative_prompt" \in DOMAIN sb.style_config
          THEN sb.style_config.negative_prompt ELSE "")
    ELSE sb.negative_prompt

\* a call that passes the seed and the guidance of the platform settings on
transform_image_kwargs_seeded(img, sb, settings, sd) ==
    [image_bytes |-> image_to_bytes(img),
     prompt |-> used_prompt(sb),
     strength |-> sb.strength,
     negative_prompt |-> used_negative_prompt(sb),
     seed |-> sd,
     settings |-> settings]

\* app.py:321-326: the keyword arguments of handler.transform_image; the
\* seed of line 318 and st.session_state.platform_settings are not read
transform_image_kwargs(img, sb, settings, sd) ==
    [image_bytes |-> image_to_bytes(img),
     prompt |-> used_prompt(sb),
     strength |-> sb.strength,
     negative_prompt |-> used_negative_prompt(sb)]

CallStart(sd) ==
    /\ CallGuard
    /\ seed' = sd
    /\ kwargs' = [kwargs EXCEPT ![i] =
                      transform_image_kwargs(image, sidebar, platform_settings, sd)]
    /\ issued' = [issued EXCEPT ![i] = @ + 1]
    /\ inflight' = inflight \cup {i}
    /\ pc' = "calling"
    /\ UNCHANGED <<sessionVars, image, platform, num_variations, i, generated_images,
                   rendered, error, batch, returned, platform_settings, choices, sidebar>>
    /\ UNCHANGED adapterVars

\* a result list built in the wrong order
AppendResultFront(acc, img) == <<img>> \o acc

\* app.py:329
AppendResult(acc, img) == Append(acc, img)

\* app.py:328-329: success
OnSuccess ==
    /\ generated_images' = AppendResult(generated_images, ResultImage(batch, i, image))
    /\ i' = i + 1
    /\ pc' = "loop"
    /\ UNCHANGED <<sessionVars, error>>

\* a loop that skips a failed variation and goes on with the next one
OnFailureSkip ==
    /\ error' = "Variation failed"
    /\ i' = i + 1
    /\ pc' = "loop"
    /\ UNCHANGED <<sessionVars, generated_images>>

\* a loop that keeps the variations generated before the failure
OnFailureKeepPartial ==
    /\ error' = "Variation failed"
    /\ pc' = "results"
    /\ transformed_images' = generated_images
    /\ transformation_done' = TRUE
    /\ last_metadata' = [platform |-> platform_name(platform),
                         num_variations |-> num_variations]
    /\ UNCHANGED <<original_image, generated_images, i>>

\* app.py:330-334: failure cancels the other variations and returns
OnFailure ==
    /\ error' = "Variation failed"
    /\ pc' = "results"
    /\ UNCHANGED <<sessionVars, generated_images, i>>

\* an exception handler that resets the stored results
OnExceptionReset ==
    /\ error' = "Error"
    /\ pc' = "results"
    /\ transformed_images' = <<>>
    /\ transformation_done' = FALSE
    /\ last_metadata' = EmptyDict
    /\ UNCHANGED <<original_image, generated_images, i>>

\* app.py:358-360: an exception inside the try block
OnException ==
    /\ error' = "Error"
    /\ pc' = "results"
    /\ UNCHANGED <<sessionVars, generated_images, i>>

CallReturn(outcome) ==
    /\ pc = "calling"
    /\ inflight' = inflight \ {i}
    /\ returned' = [returned EXCEPT ![i] = outcome]
    /\ CASE outcome = "success" -> OnSuccess
         [] outcome = "failure" -> OnFailure
         [] OTHER               -> OnException
    /\ UNCHANGED <<image, platform, num_variations, rendered, batch, issued, inputVars>>
    /\ UNCHANGED adapterVars

\* app.py:346-354 (duration and timestamp are not modelled)
Metadata ==
    [platform |-> platform_name(platform), num_variations |-> num_variations]

\* app.py:336-356: the loop is over, the batch is saved to the session
StoreBatch ==
    /\ transformed_images' = generated_images
    /\ transformation_done' = TRUE
    /\ last_metadata' = Metadata

Store ==
    /\ pc = "loop"
    /\ i >= num_variations
    /\ StoreBatch
    /\ pc' = "results"
    /\ UNCHANGED <<original_image, image, platform, num_variations, i, generated_images,
                   rendered, error, histVars, inputVars>>
    /\ UNCHANGED adapterVars

\* app.py:358-360 for an exception raised before the loop
Except ==
    /\ pc = "except"
    /\ error' = "Error"
    /\ pc' = "results"
    /\ UNCHANGED <<sessionVars, image, platform, num_variations, i, generated_images,
                   rendered, histVars, inputVars>>
    /\ UNCHANGED adapterVars

\* app.py:482, 363-366
render_results ==
    /\ pc = "results"
    /\ rendered' = ResultsShown
    /\ pc' = "idle"
    /\ UNCHANGED <<sessionVars, image, platform, num_variations, i, generated_images,
                   error, histVars, inputVars>>
    /\ UNCHANGED adapterVars

OrchNext ==
    \/ \E up \in Uploads \cup {None} : Rerun(up)
    \/ \E up \in Uploads, sb \in ChoicesOf(choices).sidebars : ClickTransform(up, sb)
    \/ \E ok \in BOOLEAN : ImportHandler(ok)
    \/ \E sd \in ChoicesOf(choices).seeds : CallStart(sd)
    \/ \E outcome \in {"success", "failure", "raised"} : CallReturn(outcome)
    \/ Store
    \/ Except
    \/ render_results

(***************************************************************************)
(* The backend adapters: transform_image(image_bytes, prompt, strength,    *)
(* negative_prompt) -> (success, result). Strengths are in hundredths.     *)
(***************************************************************************)
Adapters == {"Local", "DeepAI", "HuggingFace", "Leonardo", "Replicate", "Stability"}
CloudAdapters == Adapters \ {"Local"}

Prompts == {"", "oil painting"}
NegativePrompts == {"", "blurry"}
Strengths == {5 * k : k \in 0 .. 20}
Args == [prompt : Prompts, strength : Strengths, negative_prompt : NegativePrompts]
\* arguments of the adapters that are modelled step by step
StepArgs == {a \in Args : a.strength \in {30, 60, 90}}

\* the (success, result) tuple, or the exception that left the function
NoRet == [kind |-> "none", success |-> FALSE, result |-> [type |-> "none", val |-> ""]]
Success(img) ==
    [kind |-> "returned", success |-> TRUE, result |-> [type |-> "image", val |-> img]]
Failure(msg) ==
    [kind |-> "returned", success |-> FALSE, result |-> [type |-> "str", val |-> msg]]
Raised(exc) ==
    [kind |-> "raised", success |-> FALSE, result |-> [type |-> "exception", val |-> exc]]

\* response.json() on a body that is no JSON raises JSONDecodeError, which is a
\* requests RequestException in recent versions of requests and a plain
\* ValueError in older ones
JsonRaises == {"RequestException", "Exception"}
NetRaises == {"Timeout", "RequestException", "Exception"}

Request(to, payload) == [to |-> to, payload |-> payload]

\* no request was answered
NoResp == [none |-> TRUE]

\* a credential test that is satisfied by the credential of any adapter
has_credential_of_any(adapter) == keys # {}

\* the credential test at the head of each cloud adapter, `if not ..._API_KEY`
has_credential(adapter) == adapter \in keys

(***************************************************************************)
(* DeepAI, utils/deepai_api_handler.py                                     *)
(***************************************************************************)
\* deepai_api_handler.py:66 and :69, in hundredths
band_low == 50
band_high == 70

\* deepai_api_handler.py:62-63
deepai_prompt(prompt) ==
    IF prompt = "" THEN "enhance, improve quality, detailed" ELSE prompt

\* banding with the boundaries in the lower band
final_prompt_inclusive(prompt, strength) ==
    IF strength <= band_low
    THEN <<"slightly modify: ", prompt, ", keep original style">>
    ELSE IF strength <= band_high
         THEN <<"transform into: ", prompt>>
         ELSE <<"completely transform into: ", prompt, ", creative interpretation">>

\* deepai_api_handler.py:66-74
final_prompt(prompt, strength) ==
    IF strength < band_low
    THEN <<"slightly modify: ", prompt, ", keep original style">>
    ELSE IF strength < band_high
         THEN <<"transform into: ", prompt>>
         ELSE <<"completely transform into: ", prompt, ", creative interpretation">>

\* what the backend may answer to the two requests of one call; the fields
\* that are never read, because an earlier one ended the call, are at their
\* first value
DeepAIResponses ==
    {r \in [post_exc : {"none"} \cup NetRaises,
            status : {200, 401, 402, 429, 500, 503},
            body : {"output_url", "no_output_url"} \cup JsonRaises,
            get_exc : {"none"} \cup NetRaises,
            get_status : {200, 404},
            content : {"image", "garbage"}] :
        /\ r.post_exc # "none" => r.status = 200
        /\ (r.post_exc # "none" \/ r.status # 200) => r.body = "output_url"
        /\ (r.post_exc # "none" \/ r.status # 200 \/ r.body # "output_url")
              => r.get_exc = "none"
        /\ (r.post_exc # "none" \/ r.status # 200 \/ r.body # "output_url"
              \/ r.get_exc # "none") => r.get_status = 200
        /\ (r.post_exc # "none" \/ r.status # 200 \/ r.body # "output_url"
              \/ r.get_exc # "none" \/ r.get_status # 200) => r.content = "image"}

\* deepai_api_handler.py:108-121
deepai_status_error(status) ==
    CASE status = 401 -> Failure("DeepAI API key is invalid. Check your key.")
      [] status = 402 -> Failure("No credit in your DeepAI account. Check your subscription.")
      [] status = 429 -> Failure("Rate limit exceeded. Wait a few seconds and try again.")
      [] status = 500 -> Failure("DeepAI server error. Please try again in a few minutes.")
      [] OTHER        -> Failure("DeepAI API error (status): ")

\* deepai_api_handler.py:151-163
deepai_except(exc) ==
    CASE exc = "Timeout" ->
           Failure("DeepAI timeout: Processing did not complete within 60 seconds.")
      [] exc = "RequestException" -> Failure("DeepAI connection error: ")
      [] OTHER -> Failure("DeepAI API error: ")

\* deepai_api_handler.py:49-163; the value is [ret, sent]
deepai_transform_image(a, r) ==
    IF ~has_credential("DeepAI")
    THEN [ret |-> Failure("DeepAI API key not found. Add DEEPAI_API_KEY to .env file."),
          sent |-> <<>>]
    ELSE
    LET post == Request("image-editor",
                        [text |-> final_prompt(deepai_prompt(a.prompt), a.strength)])
        get == Request("output_url", [text |-> <<>>])
    IN  IF r.post_exc # "none" THEN [ret |-> deepai_except(r.post_exc), sent |-> <<post>>]
        ELSE IF r.status # 200 THEN [ret |-> deepai_status_error(r.status), sent |-> <<post>>]
        ELSE IF r.body \in JsonRaises THEN [ret |-> deepai_except(r.body), sent |-> <<post>>]
        ELSE IF r.body = "no_output_url"
             THEN [ret |-> Failure("Could not get image URL from DeepAI."), sent |-> <<post>>]
        ELSE IF r.get_exc # "none"
             THEN [ret |-> deepai_except(r.get_exc), sent |-> <<post, get>>]
        ELSE IF r.get_status # 200
             THEN [ret |-> Failure("Could not download image."), sent |-> <<post, get>>]
        ELSE IF r.content # "image"
             THEN [ret |-> deepai_except("Exception"), sent |-> <<post, get>>]
        ELSE [ret |-> Success("deepai image"), sent |-> <<post, get>>]

(***************************************************************************)
(* Leonardo.ai, utils/leonardo_api_handler.py                              *)
(***************************************************************************)
\* leonardo_api_handler.py:146
max_attempts == 60

LeoFrame ==
    [attempt |-> 0,            \* leonardo_api_handler.py:147
     sleeps |-> 0,             \* time.sleep(2) calls
     reads |-> 0,              \* status reads issued
     outstanding |-> 0,        \* status reads issued and not yet answered
     downloads |-> 0,          \* image downloads issued
     observed |-> "none",      \* terminal status seen by a status read
     reads_at_terminal |-> 0,  \* reads issued when the terminal status was seen
     raised |-> FALSE,         \* a status read or download raised
     upload |-> "none",        \* how the upload of step 1 was answered
     submit |-> "none",        \* how the submission of step 2 was answered
     waited |-> 0]             \* seconds slept in the poll loop

\* leonardo_api_handler.py:201-210
leo_except(exc) ==
    IF exc \in {"RequestException", "Timeout"}
    THEN Failure("Leonardo.ai connection error: ")
    ELSE Failure("Leonardo.ai API error: ")

\* leonardo_api_handler.py:103-104, :109
leo_prompt(prompt) ==
    IF prompt = "" THEN "high quality, detailed, professional, improved" ELSE prompt
leo_negative(negative_prompt) ==
    IF negative_prompt = "" THEN "low quality, blurry, distorted" ELSE negative_prompt

\* answers of the backend; a field that is never read is at its first value
LeoPostResponses ==
    {r \in [exc : {"none"} \cup NetRaises, status : {200, 400},
            body : {"id", "no_id"} \cup JsonRaises] :
        r.exc # "none" => (r.status = 200 /\ r.body = "id")}
LeoStatusResponses ==
    {r \in [exc : {"none"} \cup NetRaises, status : {200, 500},
            body : {"dict", "null_pk"} \cup JsonRaises,
            gen : {"PENDING", "COMPLETE", "FAILED", None},
            images : {"url", "no_images", "no_url"}] :
        /\ r.exc # "none" => r.status = 200
        /\ (r.exc # "none" \/ r.status # 200) => r.body = "dict"
        /\ (r.exc # "none" \/ r.status # 200 \/ r.body # "dict") => r.gen = "PENDING"
        /\ (r.exc # "none" \/ r.status # 200 \/ r.body # "dict" \/ r.gen # "COMPLETE")
              => r.images = "url"}
LeoDownloadResponses ==
    {r \in [exc : {"none"} \cup NetRaises, status : {200, 404},
            content : {"image", "garbage"}] :
        /\ r.exc # "none" => r.status = 200
        /\ (r.exc # "none" \/ r.status # 200) => r.content = "image"}

otherAdapterVars == <<processVars, localVars, hf, resp>>

Return(r) ==
    /\ ret' = r
    /\ apc' = "idle"

\* leonardo_api_handler.py:80-87, 127-134: the answer is a 200 that carries an id
post_answer(r) ==
    IF r.exc = "none" /\ r.status = 200 /\ r.body = "id" THEN "ok" ELSE "failed"

\* a POST handling that goes on whenever the status is 200
LeoPost_any_200(r, errmsg, idmsg, next) ==
    IF r.exc # "none" THEN Return(leo_except(r.exc))
    ELSE IF r.status # 200 THEN Return(Failure(errmsg))
    ELSE ret' = ret /\ apc' = next

\* the result of a POST of steps 1 and 2: the next position, or the return value
LeoPost(r, errmsg, idmsg, next) ==
    IF r.exc # "none" THEN Return(leo_except(r.exc))
    ELSE IF r.status # 200
         THEN IF r.body \in JsonRaises THEN Return(leo_except(r.body))
              ELSE Return(Failure(errmsg))
    ELSE IF r.body \in JsonRaises THEN Return(leo_except(r.body))
    ELSE IF r.body = "no_id" THEN Return(Failure(idmsg))
    ELSE ret' = ret /\ apc' = next

\* leonardo_api_handler.py:52-90: credential check and step 1, the upload
LeoUpload(r) ==
    /\ handler = "Leonardo"
    /\ apc = "start"
    /\ IF ~has_credential("Leonardo")
       THEN /\ Return(Failure("Leonardo.ai API key not found. Add LEONARDO_API_KEY to .env file."))
            /\ sent' = sent
            /\ leo' = leo
       ELSE /\ sent' = Append(sent, Request("init-image", [extension |-> "png"]))
            /\ leo' = [leo EXCEPT !.upload = post_answer(r)]
            /\ LeoPost(r, "Image upload error: ", "Could not get init image ID.", "generate")
    /\ UNCHANGED <<otherAdapterVars, call>>
    /\ UNCHANGED orchVars

\* leonardo_api_handler.py:106-117
generation_payload(a) ==
    [prompt |-> leo_prompt(a.prompt),
     negative_prompt |-> leo_negative(a.negative_prompt),
     init_strength |-> a.strength,
     init_image_id |-> "init image id",
     num_images |-> 1]

\* leonardo_api_handler.py:92-140: step 2, the generation job
LeoGenerate(r) ==
    /\ handler = "Leonardo"
    /\ apc = "generate"
    /\ sent' = Append(sent, Request("generations", generation_payload(call)))
    /\ leo' = [leo EXCEPT !.submit = post_answer(r)]
    /\ LeoPost(r, "Generation start error: ", "Could not get generation ID.", "poll")
    /\ UNCHANGED <<otherAdapterVars, call>>
    /\ UNCHANGED orchVars

\* leonardo_api_handler.py:150, seconds
poll_interval == 2

\* a loop test that admits one more round
loop_continues_inclusive == leo.attempt <= max_attempts

\* leonardo_api_handler.py:149, `while attempt < max_attempts`
loop_continues == leo.attempt < max_attempts

\* leonardo_api_handler.py:149-151: the loop head, the sleep and the count
LeoSleep ==
    /\ handler = "Leonardo"
    /\ apc = "poll"
    /\ loop_continues
    /\ leo' = [leo EXCEPT !.attempt = @ + 1, !.sleeps = @ + 1,
                          !.waited = @ + poll_interval]
    /\ apc' = "read"
    /\ UNCHANGED <<otherAdapterVars, call, ret, sent>>
    /\ UNCHANGED orchVars

\* a poll budget that ends like a failed job
poll_exhausted_as_failed == Failure("Generation failed.")

\* leonardo_api_handler.py:199
poll_exhausted == Failure("Timeout: Generation did not complete within 60 seconds.")

\* leonardo_api_handler.py:149, 199: the loop ends without a terminal status
LeoTimeout ==
    /\ handler = "Leonardo"
    /\ apc = "poll"
    /\ ~loop_continues
    /\ Return(poll_exhausted)
    /\ UNCHANGED <<otherAdapterVars, call, sent, leo>>
    /\ UNCHANGED orchVars

\* leonardo_api_handler.py:153-159: the status read is issued
LeoIssueRead ==
    /\ handler = "Leonardo"
    /\ apc = "read"
    /\ leo' = [leo EXCEPT !.reads = @ + 1, !.outstanding = @ + 1]
    /\ apc' = "await"
    /\ UNCHANGED <<otherAdapterVars, call, ret, sent>>
    /\ UNCHANGED orchVars

\* a poller that keeps polling after FAILED
on_failed_keep_polling ==
    /\ ret' = ret
    /\ apc' = "poll"

\* leonardo_api_handler.py:196-197
on_failed == Return(Failure("Generation failed."))

\* leonardo_api_handler.py:170-180: COMPLETE, up to the download
on_complete(r) ==
    IF r.images = "no_images" THEN Return(Failure("Image could not be generated."))
    ELSE IF r.images = "no_url" THEN Return(Failure("Could not get image URL."))
    ELSE ret' = ret /\ apc' = "download"

\* leonardo_api_handler.py:159-197: the answer to the status read
LeoReadResponse(r) ==
    /\ handler = "Leonardo"
    /\ apc = "await"
    /\ LET terminal == r.exc = "none" /\ r.status = 200 /\ r.body = "dict"
                       /\ r.gen \in {"COMPLETE", "FAILED"}
           raises == r.exc # "none" \/ (r.status = 200 /\ r.body # "dict")
       IN  /\ leo' = [leo EXCEPT !.outstanding = @ - 1,
                                 !.observed = IF terminal THEN r.gen ELSE @,
                                 !.reads_at_terminal = IF terminal THEN leo.reads ELSE @,
                                 !.raised = raises]
           /\ IF r.exc # "none" THEN Return(leo_except(r.exc))
              ELSE IF r.status # 200 THEN ret' = ret /\ apc' = "poll"
              ELSE IF r.body \in JsonRaises THEN Return(leo_except(r.body))
              ELSE IF r.body = "null_pk" THEN Return(leo_except("Exception"))
              ELSE IF r.gen = "COMPLETE" THEN on_complete(r)
              ELSE IF r.gen = "FAILED" THEN on_failed
              ELSE ret' = ret /\ apc' = "poll"
    /\ UNCHANGED <<otherAdapterVars, call, sent>>
    /\ UNCHANGED orchVars

\* leonardo_api_handler.py:184-194: the download of the generated image
LeoDownload(r) ==
    /\ handler = "Leonardo"
    /\ apc = "download"
    /\ leo' = [leo EXCEPT !.downloads = @ + 1, !.raised = r.exc # "none"]
    /\ sent' = Append(sent, Request("image_url", [extension |-> "png"]))
    /\ IF r.exc # "none" THEN Return(leo_except(r.exc))
       ELSE IF r.status # 200 THEN Return(Failure("Could not download image."))
       ELSE IF r.content # "image" THEN Return(leo_except("Exception"))
       ELSE Return(Success("leonardo image"))
    /\ UNCHANGED <<otherAdapterVars, call>>
    /\ UNCHANGED orchVars

LeoNext ==
    \/ \E r \in LeoPostResponses : LeoUpload(r)
    \/ \E r \in LeoPostResponses : LeoGenerate(r)
    \/ LeoSleep
    \/ LeoTimeout
    \/ LeoIssueRead
    \/ \E r \in LeoStatusResponses : LeoReadResponse(r)
    \/ \E r \in LeoDownloadResponses : LeoDownload(r)


(***************************************************************************)
(* The local adapter, utils/local_inference_handler.py. A frame holds the  *)
(* locals of one thread's transform_image call.                            *)
(***************************************************************************)
\* local transform_image calls and unload_pipeline calls explored
MaxLocalCalls == 3
MaxUnloads == 1

Threads == {1, 2}

LocalFrame ==
    [pc |-> "idle",
     args |-> [prompt |-> "", strength |-> 60, negative_prompt |-> ""],
     device |-> None,           \* load_pipeline's local, :58
     pipeline |-> None,         \* transform_image's local, :134
     cached_at_start |-> FALSE, \* _pipeline was set when the call was entered
     invoked |-> FALSE,         \* the call ran from_pretrained
     released |-> 0,            \* torch.cuda.empty_cache() calls of the call
     raised |-> "none",         \* what was raised inside the call's try block
     after_oom |-> FALSE,       \* an earlier call of the thread ran out of memory
     ret |-> NoRet]

LocalRaises == {"out of memory", "RuntimeError", "Exception"}
LocalArgs == {a \in Args : a.strength = 60}

\* handlers without the out-of-memory case
local_except_generic(exc) ==
    CASE exc \in {"out of memory", "RuntimeError"} -> Failure("GPU error: ")
      [] OTHER -> Failure("Local inference error: ")

\* local_inference_handler.py:188-201
local_except(exc) ==
    CASE exc = "out of memory" ->
           Failure("Insufficient GPU memory. Try a smaller image or lower the strength value.")
      [] exc = "RuntimeError" -> Failure("GPU error: ")
      [] OTHER -> Failure("Local inference error: ")

\* local_inference_handler.py:151-152
local_prompt(prompt) ==
    IF prompt = "" THEN "high quality, detailed, improved, professional" ELSE prompt

\* the call returns: its locals are gone, what it did stays on record
Returned(f, r) ==
    [LocalFrame EXCEPT !.cached_at_start = f.cached_at_start, !.invoked = f.invoked,
                       !.released = f.released, !.raised = f.raised,
                       !.after_oom = f.after_oom, !.ret = r]

LocalReturn(t, f, r) ==
    loc' = [loc EXCEPT ![t] = Returned(f, r)]

\* transform_image is entered, :108-131
LocalStart(t, a) ==
    /\ handler = "Local"
    /\ loc[t].pc = "idle"
    /\ calls < MaxLocalCalls
    /\ calls' = calls + 1
    /\ loc' = [loc EXCEPT ![t] = [LocalFrame EXCEPT !.pc = "load", !.args = a,
                                                   !.cached_at_start = _pipeline # None,
                                                   !.after_oom = loc[t].after_oom
                                                       \/ loc[t].raised = "out of memory"]]
    /\ UNCHANGED <<cuda, _device, _pipeline, threads, constructions, unloads>>
    /\ UNCHANGED <<processVars, cloudVars, orchVars>>

\* a load_pipeline that never finds the cached instance
pipeline_cached_never == FALSE

\* local_inference_handler.py:49
pipeline_cached == _pipeline # None

\* local_inference_handler.py:28-39
get_device == IF _device # None THEN _device ELSE IF cuda THEN "cuda" ELSE "cpu"

\* load_pipeline's cache test, :49-58
LoadPipeline(t) ==
    /\ handler = "Local"
    /\ loc[t].pc = "load"
    /\ IF pipeline_cached
       THEN /\ loc' = [loc EXCEPT ![t].pc = "infer", ![t].pipeline = _pipeline]
            /\ _device' = _device
       ELSE /\ _device' = get_device
            /\ loc' = [loc EXCEPT ![t].pc = "from_pretrained", ![t].device = get_device]
    /\ UNCHANGED <<cuda, _pipeline, threads, calls, constructions, unloads>>
    /\ UNCHANGED <<processVars, cloudVars, orchVars>>

\* local_inference_handler.py:69-74 and, when it raises, :99-105 and :188-201
FromPretrained(t, res) ==
    /\ handler = "Local"
    /\ loc[t].pc = "from_pretrained"
    /\ IF res = "ok"
       THEN /\ _pipeline' = "constructed"
            /\ constructions' = constructions + 1
            /\ loc' = [loc EXCEPT ![t].pc = "to_device", ![t].invoked = TRUE]
       ELSE /\ LocalReturn(t, [loc[t] EXCEPT !.invoked = TRUE, !.raised = res],
                            local_except(res))
            /\ UNCHANGED <<_pipeline, constructions>>
    /\ UNCHANGED <<cuda, _device, threads, calls, unloads>>
    /\ UNCHANGED <<processVars, cloudVars, orchVars>>

\* local_inference_handler.py:77; on the CPU the pipeline is then returned, :96-97
ToDevice(t, res) ==
    /\ handler = "Local"
    /\ loc[t].pc = "to_device"
    /\ IF res = "ok"
       THEN /\ _pipeline' = "moved"
            /\ IF loc[t].device = "cuda"
               THEN loc' = [loc EXCEPT ![t].pc = "optimize"]
               ELSE loc' = [loc EXCEPT ![t].pc = "infer", ![t].pipeline = "moved"]
       ELSE /\ LocalReturn(t, [loc[t] EXCEPT !.raised = res], local_except(res))
            /\ _pipeline' = _pipeline
    /\ UNCHANGED <<cuda, _device, threads, calls, constructions, unloads>>
    /\ UNCHANGED <<processVars, cloudVars, orchVars>>

\* local_inference_handler.py:80-97: the memory optimizations on the GPU
Optimize(t, res) ==
    /\ handler = "Local"
    /\ loc[t].pc = "optimize"
    /\ IF res = "ok"
       THEN /\ _pipeline' = "ready"
            /\ loc' = [loc EXCEPT ![t].pc = "infer", ![t].pipeline = "ready"]
       ELSE /\ LocalReturn(t, [loc[t] EXCEPT !.raised = res], local_except(res))
            /\ _pipeline' = _pipeline
    /\ UNCHANGED <<cuda, _device, threads, calls, constructions, unloads>>
    /\ UNCHANGED <<processVars, cloudVars, orchVars>>

\* local_inference_handler.py:183-184: only the success path clears the cache
cache_cleared(res) == IF res = "ok" /\ cuda THEN 1 ELSE 0

\* local_inference_handler.py:136-201: decode, inference, result
Infer(t, res) ==
    /\ handler = "Local"
    /\ loc[t].pc = "infer"
    /\ LocalReturn(t, [loc[t] EXCEPT !.released = @ + cache_cleared(res),
                                      !.raised = IF res = "ok" THEN "none" ELSE res],
                   IF res = "ok" THEN Success("local image") ELSE local_except(res))
    /\ UNCHANGED <<cuda, _device, _pipeline, threads, calls, constructions, unloads>>
    /\ UNCHANGED <<processVars, cloudVars, orchVars>>

\* local_inference_handler.py:219-230, called between calls
unload_pipeline ==
    /\ handler = "Local"
    /\ \A t \in threads : loc[t].pc = "idle"
    /\ unloads < MaxUnloads
    /\ unloads' = unloads + 1
    /\ _pipeline' = None
    /\ UNCHANGED <<cuda, _device, threads, loc, calls, constructions>>
    /\ UNCHANGED <<processVars, cloudVars, orchVars>>

LocalNext ==
    \/ \E t \in threads, a \in LocalArgs : LocalStart(t, a)
    \/ \E t \in threads : LoadPipeline(t)
    \/ \E t \in threads, res \in {"ok"} \cup LocalRaises : FromPretrained(t, res)
    \/ \E t \in threads, res \in {"ok"} \cup LocalRaises : ToDevice(t, res)
    \/ \E t \in threads, res \in {"ok"} \cup LocalRaises : Optimize(t, res)
    \/ \E t \in threads, res \in {"ok"} \cup LocalRaises : Infer(t, res)
    \/ unload_pipeline

LocalInit ==
    /\ cuda \in BOOLEAN
    /\ _device = None
    /\ _pipeline = None
    /\ loc = [t \in Threads |-> LocalFrame]
    /\ calls = 0
    /\ constructions = 0
    /\ unloads = 0

(***************************************************************************)
(* Replicate, utils/replicate_api_handler.py                               *)
(***************************************************************************)
\* replicate_api_handler.py:70
replicate_prompt(prompt) ==
    IF prompt = "" THEN "improve the image quality" ELSE prompt

\* parameters that pass the negative prompt on to the model
input_params_with_negative(a) ==
    [image |-> "data uri",
     prompt |-> replicate_prompt(a.prompt),
     negative_prompt |-> a.negative_prompt,
     num_inference_steps |-> 20,
     image_guidance_scale |-> 150,
     guidance_scale |-> 750]

\* replicate_api_handler.py:68-74; neither the strength nor the negative
\* prompt is read
input_params(a) ==
    [image |-> "data uri",
     prompt |-> replicate_prompt(a.prompt),
     num_inference_steps |-> 20,
     image_guidance_scale |-> 150,
     guidance_scale |-> 750]

\* what the text of a raised exception contains
ErrorTexts == {"401", "402", "429", "500", "other"}

\* the value of replicate.run and the answer to the download; a field that
\* is never read is at its first value
ReplicateResponses ==
    {r \in [run_exc : {"none"} \cup ErrorTexts,
            output : {"url", "image", "list_url", "list_image", "list_list",
                      "list_other", "empty_list", "other"},
            get_exc : {"none"} \cup ErrorTexts,
            content : {"image", "garbage"},
            garbage_text : ErrorTexts,
            pixels : {"picture A", "picture B"}] :
        /\ (r.run_exc # "none" \/ r.get_exc # "none" \/ r.content # "image"
              \/ r.output \notin {"url", "image", "list_url", "list_image"})
              => r.pixels = "picture A"
        /\ r.run_exc # "none" => r.output = "url"
        /\ (r.run_exc # "none" \/ r.output \notin {"url", "list_url"})
              => (r.get_exc = "none" /\ r.content = "image")
        /\ r.get_exc # "none" => r.content = "image"
        /\ r.content = "image" => r.garbage_text = "401"}

\* a handler that lets the exception leave the adapter
replicate_reraise(text) == Raised(text)

\* replicate_api_handler.py:123-138
replicate_except(text) ==
    CASE text = "401" -> Failure("Replicate API token is invalid. Check your token.")
      [] text = "402" ->
           Failure("No credit in your Replicate account. Check your billing settings.")
      [] text = "429" -> Failure("Too many requests. Wait a few minutes and try again.")
      [] text = "500" ->
           Failure("Replicate servers are busy. Please try again in a few minutes.")
      [] OTHER -> Failure("Replicate API error: ")

\* an output test that knows no lists
output_branch_without_lists(output) ==
    CASE output = "url" -> "download"
      [] output = "image" -> "image"
      [] OTHER -> "unexpected"

\* replicate_api_handler.py:97-116: the branch taken for the value of
\* replicate.run; line 114 takes the first element of a list as it is
output_branch(output) ==
    CASE output = "url" -> "download"
      [] output = "image" -> "image"
      [] output = "list_url" -> "download"
      [] output = "list_image" -> "image"
      [] output \in {"list_list", "list_other"} -> "first element"
      [] OTHER -> "unexpected"

\* replicate_api_handler.py:47-138; the value is [ret, sent]
replicate_transform_image(a, r) ==
    IF ~has_credential("Replicate")
    THEN [ret |-> Failure("Replicate API token not found. Add REPLICATE_API_TOKEN to .env file."),
          sent |-> <<>>]
    ELSE
    LET run == Request("timbrooks/instruct-pix2pix", input_params(a))
        get == Request("output url", [image |-> "none"])
        branch == output_branch(r.output)
    IN  IF r.run_exc # "none" THEN [ret |-> replicate_except(r.run_exc), sent |-> <<run>>]
        ELSE IF branch = "download"
             THEN IF r.get_exc # "none"
                  THEN [ret |-> replicate_except(r.get_exc), sent |-> <<run, get>>]
                  ELSE IF r.content # "image"
                       THEN [ret |-> replicate_except(r.garbage_text), sent |-> <<run, get>>]
                       ELSE [ret |-> Success(r.pixels), sent |-> <<run, get>>]
        ELSE IF branch = "image" THEN [ret |-> Success(r.pixels), sent |-> <<run>>]
        \* line 118 reads the size of what is no image
        ELSE IF branch = "first element"
             THEN [ret |-> replicate_except("other"), sent |-> <<run>>]
        ELSE [ret |-> Failure("Unexpected output format: "), sent |-> <<run>>]

(***************************************************************************)
(* Stability AI, utils/stability_ai_handler.py                             *)
(***************************************************************************)
\* one entry for both prompts
text_prompts_single_entry(a) ==
    <<[text |-> IF a.prompt # "" THEN a.prompt
                ELSE IF a.negative_prompt # "" THEN a.negative_prompt
                ELSE "high quality, detailed, improved",
       weight |-> 100]>>

\* stability_ai_handler.py:125-144
text_prompts(a) ==
    <<[text |-> IF a.prompt # "" THEN a.prompt ELSE "high quality, detailed, improved",
       weight |-> 100]>>
    \o (IF a.negative_prompt # ""
        THEN <<[text |-> a.negative_prompt, weight |-> -100]>>
        ELSE <<>>)

\* the strength passed on as it is
image_strength_as_given(strength) == strength

\* stability_ai_handler.py:160, in hundredths
image_strength(strength) == 100 - strength

\* stability_ai_handler.py:162-174
stability_data(a) ==
    [text_prompts |-> text_prompts(a),
     image_strength |-> image_strength(a.strength),
     cfg_scale |-> 1200,
     samples |-> 1,
     steps |-> 50]

\* the answer of the backend; a field that is never read is at its first value
StabilityResponses ==
    {r \in [post_exc : {"none"} \cup NetRaises,
            status : {200, 400, 401, 402, 403, 404, 429, 500},
            content_type : {"application/json", "text/html"},
            error_body : {"message", "no_message", "list"} \cup JsonRaises,
            body : {"artifact", "no_artifacts", "empty_artifacts", "list", "null",
                    "CONTENT_FILTERED", "CONTENT_FILTERED with base64",
                    "no_base64", "bad_base64", "garbage"}
                     \cup JsonRaises] :
        /\ r.post_exc # "none" => r.status = 200
        /\ (r.post_exc # "none" \/ r.status = 200)
              => (r.content_type = "application/json" /\ r.error_body = "message")
        /\ r.content_type # "application/json" => r.error_body = "message"
        /\ (r.post_exc # "none" \/ r.status # 200) => r.body = "artifact"}

\* a finish-reason test that gives way to image data
content_filtered_unless_image(body) == body = "CONTENT_FILTERED"

\* stability_ai_handler.py:221-225: the finish reason of the first artifact,
\* read before its base64 field
content_filtered(body) ==
    body \in {"CONTENT_FILTERED", "CONTENT_FILTERED with base64"}

\* stability_ai_handler.py:244-253
stability_except(exc) ==
    IF exc = "RequestException" \/ exc = "Timeout"
    THEN Failure("Stability AI connection error: ")
    ELSE Failure("Stability AI API error: ")

\* stability_ai_handler.py:195-211
stability_status_error(r) ==
    IF r.content_type = "application/json" /\ r.error_body \in JsonRaises
    THEN stability_except(r.error_body)
    ELSE IF r.content_type = "application/json" /\ r.error_body = "list"
    THEN stability_except("Exception")
    ELSE CASE r.status = 401 -> Failure("Stability AI API key is invalid. Check your key.")
           [] r.status = 402 ->
                Failure("No credit in your Stability AI account. Check your billing settings.")
           [] r.status = 403 ->
                Failure("You don't have permission for this operation. Check your subscription plan.")
           [] r.status = 404 -> Failure("Engine not found: stable-diffusion-xl-1024-v1-0")
           [] r.status = 429 -> Failure("Rate limit exceeded. Wait a few seconds and try again.")
           [] OTHER -> Failure("Stability AI API error: ")

\* stability_ai_handler.py:92-253; the value is [ret, sent]
stability_transform_image(a, r) ==
    IF ~has_credential("Stability")
    THEN [ret |-> Failure("Stability AI API key not found. Add STABILITY_API_KEY to .env file."),
          sent |-> <<>>]
    ELSE
    LET post == <<Request("image-to-image", stability_data(a))>>
    IN  IF r.post_exc # "none" THEN [ret |-> stability_except(r.post_exc), sent |-> post]
        ELSE IF r.status # 200 THEN [ret |-> stability_status_error(r), sent |-> post]
        ELSE IF r.body \in JsonRaises THEN [ret |-> stability_except(r.body), sent |-> post]
        ELSE IF r.body \in {"no_artifacts", "empty_artifacts", "list"}
             THEN [ret |-> Failure("No image returned from API."), sent |-> post]
        ELSE IF r.body = "null" THEN [ret |-> stability_except("Exception"), sent |-> post]
        ELSE IF content_filtered(r.body)
             THEN [ret |-> Failure("Caught by content filter. Please change your prompt."),
                   sent |-> post]
        ELSE IF r.body = "no_base64"
             THEN [ret |-> Failure("Could not get base64 image from API."), sent |-> post]
        ELSE IF r.body \in {"bad_base64", "garbage"}
             THEN [ret |-> stability_except("Exception"), sent |-> post]
        ELSE [ret |-> Success("stability image"), sent |-> post]

(***************************************************************************)
(* Hugging Face, utils/hf_api_handler.py                                   *)
(***************************************************************************)
\* the candidate models in another order
models_to_try_reordered ==
    <<[name |-> "stabilityai/stable-diffusion-xl-refiner-1.0", type |-> "refiner"],
      [name |-> "timbrooks/instruct-pix2pix", type |-> "instruct"],
      [name |-> "lllyasviel/sd-controlnet-canny", type |-> "controlnet"]>>

\* hf_api_handler.py:50-66
models_to_try ==
    <<[name |-> "timbrooks/instruct-pix2pix", type |-> "instruct"],
      [name |-> "lllyasviel/sd-controlnet-canny", type |-> "controlnet"],
      [name |-> "stabilityai/stable-diffusion-xl-refiner-1.0", type |-> "refiner"]>>

\* hf_api_handler.py:160-163
direct_models ==
    <<"timbrooks/instruct-pix2pix", "stabilityai/stable-diffusion-xl-refiner-1.0">>

\* prompts that contain one of turn, make, change, convert, transform
InstructionPrompts == {"make it snowy"}
HFArgs == StepArgs \cup [prompt : InstructionPrompts, strength : {60},
                         negative_prompt : {"blurry"}]

\* hf_api_handler.py:69-70
hf_prompt(prompt) ==
    IF prompt = "" THEN "improve image quality, add details, enhance colors" ELSE prompt

\* hf_api_handler.py:73-75
instruct_prompt(prompt) ==
    IF hf_prompt(prompt) \in InstructionPrompts
    THEN <<hf_prompt(prompt)>>
    ELSE <<"transform this image: ", hf_prompt(prompt)>>

HFFrame ==
    [method |-> 0,        \* 1: InferenceClient, 2: direct HTTP
     k |-> 0,             \* index of the model being tried
     attempts |-> 0,      \* requests sent by this call
     last |-> "none",     \* how the last attempt ended
     client |-> "none",   \* InferenceClient(token=...): "ok" or "raised"
     results |-> <<>>]    \* how each request of the call ended, in order

\* what an attempt came to: an image, a 503, a 422, or another failure
result_class(last) ==
    IF last \in {"image", "readable"} THEN "image"
    ELSE IF last \in {"503", "exception 503"} THEN "503"
    ELSE IF last = "422" THEN "422"
    ELSE "failed"

\* the frame after one more request that ended with `last`
hf_after(last) ==
    [hf EXCEPT !.attempts = @ + 1, !.last = last,
               !.results = Append(@, result_class(last))]

\* hf_api_handler.py:99-117
managed_payload(a, model) ==
    IF model.type = "instruct"
    THEN [prompt |-> instruct_prompt(a.prompt), negative_prompt |-> None,
          strength |-> a.strength, guidance_scale |-> 750]
    ELSE [prompt |-> <<hf_prompt(a.prompt)>>,
          negative_prompt |-> IF a.negative_prompt # "" THEN a.negative_prompt ELSE None,
          strength |-> a.strength, guidance_scale |-> 750]

\* hf_api_handler.py:178-187
direct_payload(a) ==
    [inputs |-> [image |-> "image_b64", prompt |-> instruct_prompt(a.prompt)],
     parameters |-> [strength |-> a.strength, guidance_scale |-> 750]]

\* hf_api_handler.py:226-233
alt_payload(a) ==
    [inputs |-> "image_b64",
     parameters |-> [prompt |-> instruct_prompt(a.prompt), strength |-> a.strength,
                     guidance_scale |-> 750]]

\* hf_api_handler.py:266-277
all_failed == Failure("No suitable model found in Hugging Face free API.")

hfOtherVars == <<processVars, localVars, call, leo, resp>>

\* hf_api_handler.py:43-44, 84-85, 150-151: the token check and the client
HFClient(res) ==
    /\ handler = "HuggingFace"
    /\ apc = "start"
    /\ IF ~has_credential("HuggingFace")
       THEN /\ Return(Failure("API token not found. Check your .env file."))
            /\ hf' = hf
       ELSE /\ ret' = ret
            /\ IF res = "ok"
               THEN apc' = "managed" /\ hf' = [hf EXCEPT !.method = 1, !.k = 1,
                                                         !.client = "ok"]
               ELSE apc' = "direct" /\ hf' = [hf EXCEPT !.method = 2, !.k = 1,
                                                        !.last = "client raised",
                                                        !.client = "raised"]
    /\ sent' = sent
    /\ UNCHANGED hfOtherVars
    /\ UNCHANGED orchVars

\* an image, a readable object that is an image or is none, another object,
\* an exception whose text has "503" in it, another exception
ManagedResults ==
    {"image", "readable", "unreadable", "other", "exception 503", "exception"}

\* hf_api_handler.py:88-148: one model of Method 1
HFManaged(res) ==
    /\ handler = "HuggingFace"
    /\ apc = "managed"
    /\ sent' = Append(sent, Request(<<"InferenceClient", models_to_try[hf.k].name>>,
                                    managed_payload(call, models_to_try[hf.k])))
    /\ IF res \in {"image", "readable"}
       THEN /\ Return(Success("hugging face image"))
            /\ hf' = hf_after(res)
       ELSE /\ ret' = ret
            /\ IF hf.k < Len(models_to_try)
               THEN /\ apc' = "managed"
                    /\ hf' = [hf_after(res) EXCEPT !.k = @ + 1]
               ELSE /\ apc' = "direct"
                    /\ hf' = [hf_after(res) EXCEPT !.method = 2, !.k = 1]
    /\ UNCHANGED hfOtherVars
    /\ UNCHANGED orchVars

\* a loop that tries the same model again after a failed attempt
hf_retry_same_model(last) ==
    /\ hf' = hf_after(last)
    /\ ret' = ret
    /\ apc' = "direct"

\* a loop that gives up when a model is warming up
hf_fail_on_503(last) ==
    /\ hf' = [hf_after(last) EXCEPT !.k = @ + 1]
    /\ IF last = "503" THEN Return(Failure("Model is loading."))
       ELSE IF hf.k < Len(direct_models)
       THEN ret' = ret /\ apc' = "direct"
       ELSE Return(all_failed)

\* hf_api_handler.py:170, 211-259: continue, and the end of the loop
hf_continue(last) ==
    /\ hf' = [hf_after(last) EXCEPT !.k = @ + 1]
    /\ IF hf.k < Len(direct_models)
       THEN ret' = ret /\ apc' = "direct"
       ELSE Return(all_failed)

HFDirectResponses ==
    {r \in [exc : {"none"} \cup NetRaises,
            status : {200, 401, 404, 422, 500, 503},
            content : {"image", "garbage"}] :
        /\ r.exc # "none" => r.status = 200
        /\ (r.exc # "none" \/ r.status # 200) => r.content = "image"}

hf_outcome(r) ==
    IF r.exc # "none" THEN r.exc
    ELSE IF r.status = 200 /\ r.content # "image" THEN "Exception"
    ELSE IF r.status = 200 THEN "image"
    ELSE IF r.status = 503 THEN "503"
    ELSE IF r.status = 422 THEN "422"
    ELSE "status"

\* hf_api_handler.py:170-259: one model of Method 2, the first POST
HFDirect(r) ==
    /\ handler = "HuggingFace"
    /\ apc = "direct"
    /\ sent' = Append(sent, Request(<<"router", direct_models[hf.k]>>, direct_payload(call)))
    /\ IF hf_outcome(r) = "image"
       THEN /\ Return(Success("hugging face image"))
            /\ hf' = hf_after("image")
       ELSE IF hf_outcome(r) = "422"
       THEN /\ ret' = ret
            /\ apc' = "alternative"
            /\ hf' = hf_after("422")
       ELSE hf_continue(hf_outcome(r))
    /\ UNCHANGED hfOtherVars
    /\ UNCHANGED orchVars

\* hf_api_handler.py:221-243: the second POST of a model, after a 422
HFAlternative(r) ==
    /\ handler = "HuggingFace"
    /\ apc = "alternative"
    /\ sent' = Append(sent, Request(<<"router", direct_models[hf.k]>>, alt_payload(call)))
    /\ IF hf_outcome(r) = "image"
       THEN /\ Return(Success("hugging face image"))
            /\ hf' = hf_after("image")
       ELSE hf_continue(IF hf_outcome(r) = "422" THEN "status" ELSE hf_outcome(r))
    /\ UNCHANGED hfOtherVars
    /\ UNCHANGED orchVars

HFNext ==
    \/ \E res \in {"ok", "exception"} : HFClient(res)
    \/ \E res \in ManagedResults : HFManaged(res)
    \/ \E r \in HFDirectResponses : HFDirect(r)
    \/ \E r \in HFDirectResponses : HFAlternative(r)

(***************************************************************************)
(* A call of the adapter in use.                                           *)
(***************************************************************************)
StepAdapters == {"Leonardo"}

\* the arguments explored for the adapter in use
CallArgs ==
    IF handler = "HuggingFace" THEN HFArgs
    ELSE IF handler \in StepAdapters \cup {"Replicate"} THEN StepArgs
    ELSE Args

\* transform_image is entered
StartCall(a) ==
    /\ apc = "idle"
    /\ handler \in CloudAdapters
    /\ call' = a
    /\ ret' = NoRet
    /\ sent' = <<>>
    /\ resp' = NoResp
    /\ leo' = LeoFrame
    /\ hf' = HFFrame
    /\ apc' = "start"
    /\ style_config' = NoStyle
    /\ UNCHANGED <<handler, keys, reported, localVars>>
    /\ UNCHANGED orchVars

\* a preset style: a dict with a prompt; the other entries may be missing
StyleConfigs ==
    {[prompt |-> "oil painting"],
     [prompt |-> "oil painting", strength |-> 40],
     [prompt |-> "oil painting", negative_prompt |-> "blurry"],
     [prompt |-> "oil painting", strength |-> 40, negative_prompt |-> "blurry"]}

\* dict.get(key, default)
get(d, key, default) == IF key \in DOMAIN d THEN d[key] ELSE default

\* d[key] raises KeyError when the key is missing
has_key(d, key) == key \in DOMAIN d

\* transform_with_style up to its call of transform_image: the arguments
\* passed on, or the KeyError raised. deepai_api_handler.py:169-171 (the
\* Leonardo, Replicate, Stability AI and local adapters read the style the
\* same way); hf_api_handler.py:289-294 subscripts "strength"
transform_with_style(h, style) ==
    IF h = "HuggingFace" /\ ~has_key(style, "strength")
    THEN [raised |-> TRUE,
          args |-> [prompt |-> "", strength |-> 60, negative_prompt |-> ""]]
    ELSE [raised |-> FALSE,
          args |-> [prompt |-> style.prompt,
                    strength |-> get(style, "strength", 60),
                    negative_prompt |-> get(style, "negative_prompt", "")]]

\* transform_with_style is called
StyleCall(style) ==
    /\ apc = "idle"
    /\ handler \in CloudAdapters
    /\ style_config' = style
    /\ LET o == transform_with_style(handler, style)
       IN  /\ call' = o.args
           /\ ret' = IF o.raised THEN Raised("KeyError") ELSE NoRet
           /\ apc' = IF o.raised THEN "idle" ELSE "start"
    /\ sent' = <<>>
    /\ resp' = NoResp
    /\ leo' = LeoFrame
    /\ hf' = HFFrame
    /\ UNCHANGED <<handler, keys, reported, localVars>>
    /\ UNCHANGED orchVars

\* the whole call of the DeepAI adapter
DeepAICall(r) ==
    /\ handler = "DeepAI"
    /\ apc = "start"
    /\ LET o == deepai_transform_image(call, r)
       IN  /\ Return(o.ret)
           /\ sent' = o.sent
           /\ resp' = IF o.sent = <<>> THEN NoResp ELSE r
    /\ UNCHANGED <<processVars, localVars, call, leo, hf>>
    /\ UNCHANGED orchVars

\* the whole call of the Replicate adapter
ReplicateCall(r) ==
    /\ handler = "Replicate"
    /\ apc = "start"
    /\ LET o == replicate_transform_image(call, r)
       IN  /\ Return(o.ret)
           /\ sent' = o.sent
           /\ resp' = IF o.sent = <<>> THEN NoResp ELSE r
    /\ UNCHANGED <<processVars, localVars, call, leo, hf>>
    /\ UNCHANGED orchVars

\* the whole call of the Stability AI adapter
StabilityCall(r) ==
    /\ handler = "Stability"
    /\ apc = "start"
    /\ LET o == stability_transform_image(call, r)
       IN  /\ Return(o.ret)
           /\ sent' = o.sent
           /\ resp' = IF o.sent = <<>> THEN NoResp ELSE r
    /\ UNCHANGED <<processVars, localVars, call, leo, hf>>
    /\ UNCHANGED orchVars

\* the text returned when the credential of the adapter is not set
CredentialMissing ==
    {Failure("DeepAI API key not found. Add DEEPAI_API_KEY to .env file."),
     Failure("API token not found. Check your .env file."),
     Failure("Leonardo.ai API key not found. Add LEONARDO_API_KEY to .env file."),
     Failure("Replicate API token not found. Add REPLICATE_API_TOKEN to .env file."),
     Failure("Stability AI API key not found. Add STABILITY_API_KEY to .env file.")}

\* app.py:276-293: the next Transform click uses another platform; its
\* handler module is imported into the same process
SelectHandler(h) ==
    /\ apc = "idle"
    /\ handler \in CloudAdapters
    /\ h # handler
    /\ handler' = h
    /\ reported' = IF ret \in CredentialMissing THEN handler ELSE reported
    /\ call' = [prompt |-> "", strength |-> 60, negative_prompt |-> ""]
    /\ ret' = NoRet
    /\ sent' = <<>>
    /\ resp' = NoResp
    /\ leo' = LeoFrame
    /\ hf' = HFFrame
    /\ apc' = "idle"
    /\ UNCHANGED <<keys, style_config, localVars>>
    /\ UNCHANGED orchVars

\* the arguments of the calls when the platform changes between calls
SwitchArgs == {[prompt |-> "oil painting", strength |-> 60, negative_prompt |-> "blurry"]}

SwitchNext ==
    \/ \E h \in CloudAdapters : SelectHandler(h)
    \/ \E a \in SwitchArgs : StartCall(a)
    \/ \E r \in DeepAIResponses : DeepAICall(r)
    \/ \E r \in ReplicateResponses : ReplicateCall(r)
    \/ \E r \in StabilityResponses : StabilityCall(r)
    \/ LeoNext
    \/ HFNext

AdapterNext ==
    \/ \E a \in CallArgs : StartCall(a)
    \/ \E r \in DeepAIResponses : DeepAICall(r)
    \/ \E r \in ReplicateResponses : ReplicateCall(r)
    \/ \E r \in StabilityResponses : StabilityCall(r)
    \/ LeoNext
    \/ HFNext
    \/ LocalNext

\* the environments explored: every credential set, none, one missing, one set
KeySets ==
    {CloudAdapters, {}} \cup {CloudAdapters \ {a} : a \in CloudAdapters}
        \cup {{a} : a \in CloudAdapters}

CloudIdle ==
    /\ apc = "idle"
    /\ call = [prompt |-> "", strength |-> 60, negative_prompt |-> ""]
    /\ ret = NoRet
    /\ sent = <<>>
    /\ resp = NoResp
    /\ leo = LeoFrame
    /\ hf = HFFrame

\* the orchestrator alone: the adapter is whatever returns an outcome
Init ==
    /\ OrchInit
    /\ handler = None
    /\ keys = CloudAdapters
    /\ reported = None
    /\ style_config = NoStyle
    /\ CloudIdle
    /\ LocalInit
    /\ cuda = TRUE
    /\ threads = {1}

\* one process and the adapter it uses
InitAdapters ==
    /\ OrchInit
    /\ handler \in Adapters
    /\ keys \in KeySets
    /\ reported = None
    /\ style_config = NoStyle
    /\ CloudIdle
    /\ LocalInit
    /\ threads = {1}

\* two sessions of one process inside the local adapter at the same time
InitLocalConc ==
    /\ OrchInit
    /\ handler = "Local"
    /\ keys = CloudAdapters
    /\ reported = None
    /\ style_config = NoStyle
    /\ CloudIdle
    /\ LocalInit
    /\ threads = {1, 2}

\* one process whose platform changes between calls
InitSwitch ==
    /\ OrchInit
    /\ handler \in CloudAdapters
    /\ keys \in KeySets
    /\ reported = None
    /\ style_config = NoStyle
    /\ CloudIdle
    /\ LocalInit
    /\ cuda = TRUE
    /\ threads = {1}

\* one process that uses the Hugging Face adapter
InitHF ==
    /\ OrchInit
    /\ handler = "HuggingFace"
    /\ keys \in KeySets
    /\ reported = None
    /\ style_config = NoStyle
    /\ CloudIdle
    /\ LocalInit
    /\ cuda = TRUE
    /\ threads = {1}

HFCallNext ==
    \/ \E a \in HFArgs : StartCall(a)
    \/ HFNext

\* one process that calls a cloud adapter through transform_with_style
InitStyle ==
    /\ OrchInit
    /\ handler \in CloudAdapters
    /\ keys = CloudAdapters
    /\ reported = None
    /\ style_config = NoStyle
    /\ CloudIdle
    /\ LocalInit
    /\ cuda = TRUE
    /\ threads = {1}

StyleNext ==
    \/ \E style \in StyleConfigs : StyleCall(style)
    \/ \E r \in DeepAIResponses : DeepAICall(r)
    \/ \E r \in ReplicateResponses : ReplicateCall(r)
    \/ \E r \in StabilityResponses : StabilityCall(r)
    \/ LeoNext
    \/ HFNext

\* the orchestrator with the platform settings and the seeds varying
InitSettings ==
    /\ OrchStart
    /\ choices = "settings"
    /\ handler = None
    /\ keys = CloudAdapters
    /\ reported = None
    /\ style_config = NoStyle
    /\ CloudIdle
    /\ LocalInit
    /\ cuda = TRUE
    /\ threads = {1}

Next == OrchNext

Spec == Init /\ [][Next]_vars

\* one process calling the adapter it uses, one call after the other
SpecAdapters == InitAdapters /\ [][AdapterNext]_vars

\* one process that calls the cloud adapters in any order
SpecSwitch == InitSwitch /\ [][SwitchNext]_vars

\* the orchestrator under every sidebar setting and seed
SpecSettings == InitSettings /\ [][Next]_vars

\* calls made through transform_with_style
SpecStyle == InitStyle /\ [][StyleNext]_vars

\* calls of the Hugging Face adapter; the code is sequential, so a call that
\* has been entered takes its next step once the pending request is answered
SpecHF == InitHF /\ [][HFCallNext]_vars /\ WF_vars(HFNext)

\* the local adapter entered by two threads of one process
SpecLocalConc == InitLocalConc /\ [][LocalNext]_vars

(***************************************************************************)
(* Claims about the orchestrator, checked under Spec.                      *)
(***************************************************************************)
ImagesOfBatch(list, b) == {k \in 1 .. Len(list) : list[k].batch = b}

\* C1: fail-fast without retry. Once the call for variation f of the current
\* batch has returned Failure, every index 0..f was called exactly once, the
\* indices before f succeeded, no index after f is ever called, and no image
\* of this batch is in the session's result list or among the drawn results.
C1_FailFast ==
    \A f \in Indices :
        returned[f] = "failure" =>
            /\ \A k \in Indices : k <= f => issued[k] = 1
            /\ \A k \in Indices : k < f => returned[k] = "success"
            /\ \A k \in Indices : k > f => issued[k] = 0 /\ returned[k] = "none"
            /\ pc \in {"results", "idle"}
            /\ ImagesOfBatch(transformed_images, batch) = {}
            /\ ImagesOfBatch(rendered, batch) = {}

\* a batch of four whose third variation failed, after an earlier stored batch
C1_Witness ==
    /\ pc = "idle"
    /\ num_variations = 4
    /\ returned[2] = "failure"
    /\ transformation_done
    /\ rendered # <<>>

\* C2: whenever a stored batch exists, the stored list is as long as the
\* count recorded in the stored metadata, and that length is in 1..4.
C2_StoredLength ==
    transformation_done =>
        /\ "num_variations" \in DOMAIN last_metadata
        /\ Len(transformed_images) = last_metadata.num_variations
        /\ Len(transformed_images) \in min_value .. max_value

\* a stored batch of three that survived a later failed batch
C2_Witness ==
    /\ pc = "idle"
    /\ transformation_done
    /\ Len(transformed_images) = 3
    /\ \E f \in Indices : returned[f] = "failure"

\* C3: calls are issued one at a time in index order, call k+1 only after
\* call k returned Success, and in a fully successful batch the stored
\* result at position k is the image of the k-th invocation.
C3_SequentialInOrder ==
    /\ Cardinality(inflight) <= 1
    /\ pc = "calling" => inflight = {i}
    /\ pc # "calling" => inflight = {}
    /\ \A k \in Indices : issued[k] <= 1
    /\ \A k \in Indices : (k > 0 /\ issued[k] > 0) => returned[k - 1] = "success"
    /\ \A k \in 1 .. Len(generated_images) : generated_images[k].idx = k - 1
    /\ ( /\ pc \in {"results", "idle"}
         /\ batch > 0
         /\ \A k \in Indices : k < num_variations => returned[k] = "success" )
       => /\ Len(transformed_images) = num_variations
          /\ \A k \in Indices : k < num_variations =>
                 transformed_images[k + 1] = ResultImage(batch, k, image)

\* three variations, all successful, stored
C3_Witness ==
    /\ pc = "idle"
    /\ num_variations = 3
    /\ \A k \in 0 .. 2 : returned[k] = "success"
    /\ Len(transformed_images) = 3
    /\ transformed_images[3].idx = 2

(***************************************************************************)
(* Claims about the adapters, checked under SpecAdapters and SpecLocalConc. *)
(***************************************************************************)
\* the outcomes of the calls that have ended
Outcomes ==
    IF handler = "Local"
    THEN {loc[t].ret : t \in {u \in threads : loc[u].pc = "idle" /\ loc[u].ret.kind # "none"}}
    ELSE IF apc = "idle" /\ ret.kind # "none" THEN {ret} ELSE {}

\* C4: every call of every adapter ends with exactly one outcome, the pair
\* (True, image) or the pair (False, non-empty message); no exception leaves
\* the adapter, and a call that has not ended has no outcome.
C4_ExactlyOneOutcome ==
    /\ handler \in Adapters
    /\ \A o \in Outcomes :
          /\ o.kind = "returned"
          /\ o.success \in BOOLEAN
          /\ o.success => o.result.type = "image"
          /\ ~o.success => (o.result.type = "str" /\ o.result.val # "")
    /\ (handler # "Local" /\ apc # "idle") => ret = NoRet
    /\ \A t \in threads : (handler = "Local" /\ loc[t].pc # "idle") => loc[t].ret = NoRet

\* Hugging Face: all seven requests were sent and failed; one Failure
C4_Witness ==
    /\ handler = "HuggingFace"
    /\ apc = "idle"
    /\ hf.attempts = 7
    /\ Len(sent) = 7
    /\ ret.kind = "returned"
    /\ ~ret.success
    /\ ret.result.val = "No suitable model found in Hugging Face free API."

LeoReturned == handler = "Leonardo" /\ apc = "idle" /\ ret.kind # "none"

\* C5: Leonardo poll timeout. When all 60 status reads were answered and none
\* of them showed COMPLETE or FAILED (each was a non-200 answer or a pending
\* status), the call returns the timeout Failure, not "Generation failed.",
\* and no image; and the timeout Failure is returned in no other case.
C5_PollTimeout ==
    LeoReturned =>
        /\ (leo.reads = max_attempts /\ leo.observed = "none" /\ ~leo.raised)
             => /\ ret = Failure("Timeout: Generation did not complete within 60 seconds.")
                /\ ret # Failure("Generation failed.")
                /\ leo.downloads = 0
        /\ ret = Failure("Timeout: Generation did not complete within 60 seconds.")
             => (leo.reads = max_attempts /\ leo.sleeps = max_attempts
                 /\ leo.observed = "none")

\* the 60 reads are used up and the call has returned the timeout
C5_Witness ==
    /\ LeoReturned
    /\ leo.reads = max_attempts
    /\ leo.attempt = max_attempts
    /\ ret.success = FALSE
    /\ ret.result.val = "Timeout: Generation did not complete within 60 seconds."

\* C6: the first status read that shows a terminal status ends polling in
\* that tick. FAILED returns Failure at once; COMPLETE leads to at most one
\* download, whose failure is the call's Failure; after the terminal status
\* no status read and no sleep follows.
C6_TerminalEndsPolling ==
    (handler = "Leonardo" /\ leo.observed # "none") =>
        /\ leo.reads = leo.reads_at_terminal
        /\ leo.sleeps = leo.reads_at_terminal
        /\ leo.outstanding = 0
        /\ leo.downloads <= 1
        /\ leo.observed = "FAILED" =>
              /\ apc = "idle"
              /\ ret = Failure("Generation failed.")
              /\ leo.downloads = 0
        /\ leo.observed = "COMPLETE" =>
              /\ apc \in {"download", "idle"}
              /\ apc = "download" => leo.downloads = 0
              /\ apc = "idle" => ret.kind = "returned"
              /\ (apc = "idle" /\ ret.success) => leo.downloads = 1
              /\ (apc = "idle" /\ ~ret.success) => ret.result.type = "str"

\* COMPLETE at the third read, one download, which failed
C6_Witness ==
    /\ LeoReturned
    /\ leo.observed = "COMPLETE"
    /\ leo.reads = 3
    /\ leo.downloads = 1
    /\ ret = Failure("Could not download image.")

\* C7: after every call of the local transform_image on a machine with a
\* GPU, the device cache was cleared exactly once, whatever the exit path.
C7_CacheReleasedOnce ==
    \A t \in threads :
        (handler = "Local" /\ cuda /\ loc[t].pc = "idle" /\ loc[t].ret.kind # "none")
            => loc[t].released = 1

\* C8 as stated: after the first call no call runs the construction
C8_LaterCallsNeverConstruct ==
    (handler = "Local" /\ unloads = 0 /\ calls >= 2) => ~loc[1].invoked

\* C8 as amended: without unload_pipeline the pipeline is built at most once;
\* a call that finds the cached instance never runs the construction, and a
\* call runs it only when no pipeline has been built (or it was unloaded).
C8_ConstructedAtMostOnce ==
    handler = "Local" =>
        /\ constructions <= 1 + unloads
        /\ \A t \in threads : loc[t].cached_at_start => ~loc[t].invoked
        /\ \A t \in threads :
              (loc[t].invoked /\ unloads = 0 /\ loc[t].pc = "idle" /\ loc[t].ret.success)
                 => constructions = 1

\* three calls and one construction: the third call found the cached
\* instance and ended with an image
C8_Witness ==
    /\ handler = "Local"
    /\ unloads = 0
    /\ calls = 3
    /\ constructions = 1
    /\ loc[1].pc = "idle"
    /\ loc[1].cached_at_start
    /\ loc[1].ret.success

\* C9: under every interleaving of two concurrent calls the pipeline is
\* constructed at most once.
C9_NoDoubleConstruction ==
    (handler = "Local" /\ unloads = 0) => constructions <= 1

DeepAISent == handler = "DeepAI" /\ apc = "idle" /\ Len(sent) >= 1

\* C10: the text sent by the DeepAI adapter starts with the prefix of the
\* band of the strength: below 0.5, from 0.5 to below 0.7, 0.7 and above;
\* the prompt follows; the band depends on the strength alone.
C10_PromptBanding ==
    DeepAISent =>
        LET text == sent[1].payload.text
            s == call.strength
        IN  /\ s < 50 => text[1] = "slightly modify: "
            /\ (50 <= s /\ s < 70) => text[1] = "transform into: "
            /\ s >= 70 => text[1] = "completely transform into: "
            /\ text[2] = (IF call.prompt = "" THEN "enhance, improve quality, detailed"
                          ELSE call.prompt)
            /\ Cardinality({b \in {"slightly modify: ", "transform into: ",
                                   "completely transform into: "} : text[1] = b}) = 1

\* strength 0.7, on the boundary, sent in the upper band
C10_Witness ==
    /\ DeepAISent
    /\ call.strength = 70
    /\ sent[1].payload.text[1] = "completely transform into: "
    /\ call.negative_prompt # ""

StabilitySent == handler = "Stability" /\ apc = "idle" /\ Len(sent) >= 1

\* C11: the image_strength field of the request sent by the Stability AI
\* adapter is 1.0 - s for the strength s of the call (0.6 gives 0.4), and a
\* call with a larger strength would have sent a smaller image_strength.
C11_StrengthInversion ==
    StabilitySent =>
        /\ sent[1].payload.image_strength = 100 - call.strength
        /\ call.strength = 60 => sent[1].payload.image_strength = 40
        /\ \A s \in Strengths :
              LET other == stability_data([call EXCEPT !.strength = s]).image_strength
              IN  /\ s > call.strength => other < sent[1].payload.image_strength
                  /\ s < call.strength => other > sent[1].payload.image_strength

\* strength 0.6 was sent as 0.4 and the call ended with an image
C11_Witness ==
    /\ StabilitySent
    /\ call.strength = 60
    /\ sent[1].payload.image_strength = 40
    /\ ret.success

\* the answers in which replicate.run gave the image in one of the four shapes
ImageShaped(r) ==
    /\ r.run_exc = "none"
    /\ r.output \in {"url", "image", "list_url", "list_image"}
    /\ r.get_exc = "none"
    /\ r.content = "image"

ReplicateAnswered == handler = "Replicate" /\ apc = "idle" /\ resp # NoResp

\* C12: a URL string, a decoded image and a list whose first element is
\* either, all carrying the same picture, give the same outcome (True, image)
\* with that picture.
C12_OutputNormalization ==
    (ReplicateAnswered /\ ImageShaped(resp)) =>
        /\ ret = [kind |-> "returned", success |-> TRUE,
                  result |-> [type |-> "image", val |-> resp.pixels]]
        /\ \A r \in ReplicateResponses :
              (ImageShaped(r) /\ r.pixels = resp.pixels)
                 => replicate_transform_image(call, r).ret = ret

\* a list holding a URL, downloaded and returned as the picture
C12_Witness ==
    /\ ReplicateAnswered
    /\ ImageShaped(resp)
    /\ resp.output = "list_url"
    /\ resp.pixels = "picture B"
    /\ ret.success
    /\ Len(sent) = 2

CloudCallEnded == handler \in CloudAdapters /\ apc = "idle" /\ ret.kind # "none"

\* C13: a cloud adapter whose credential is not set returns the Failure that
\* names the missing credential and sends no request; an adapter whose
\* credential is set never returns such a Failure, also after another
\* adapter of the same process has reported its missing credential; no call
\* ends with an exception, so the process goes on.
C13_MissingCredential ==
    /\ (CloudCallEnded /\ handler \notin keys) =>
          /\ ret.kind = "returned"
          /\ ~ret.success
          /\ ret.result.val =
                (CASE handler = "DeepAI" ->
                        "DeepAI API key not found. Add DEEPAI_API_KEY to .env file."
                   [] handler = "HuggingFace" -> "API token not found. Check your .env file."
                   [] handler = "Leonardo" ->
                        "Leonardo.ai API key not found. Add LEONARDO_API_KEY to .env file."
                   [] handler = "Replicate" ->
                        "Replicate API token not found. Add REPLICATE_API_TOKEN to .env file."
                   [] handler = "Stability" ->
                        "Stability AI API key not found. Add STABILITY_API_KEY to .env file.")
          /\ sent = <<>>
          /\ resp = NoResp
          /\ leo = LeoFrame
          /\ hf = HFFrame
    /\ (CloudCallEnded /\ handler \in keys) =>
          /\ ret.kind = "returned"
          /\ ret \notin CredentialMissing
          /\ Len(sent) >= 1
    /\ reported # None => reported \notin keys

\* DeepAI reported its missing key; afterwards the Stability AI adapter of
\* the same process, whose key is set, returned an image
C13_Witness ==
    /\ reported = "DeepAI"
    /\ handler = "Stability"
    /\ keys = {"Stability"}
    /\ CloudCallEnded
    /\ ret.success

(***************************************************************************)
(* Claims about the Hugging Face adapter, checked under SpecHF.            *)
(***************************************************************************)
IsManaged(q) == q.to[1] = "InferenceClient"
IsDirect(q) == q.to[1] = "router"
\* the second payload shape carries the prompt among the parameters
IsAlternate(q) == IsDirect(q) /\ "prompt" \in DOMAIN q.payload.parameters
IsFirstShape(q) == IsDirect(q) /\ ~IsAlternate(q)
Sent == 1 .. Len(sent)

\* C14: the managed-client requests come first and in list order; a direct
\* request is sent only after all three managed attempts failed (or the
\* client could not be created); a 422 to a direct request is followed by
\* exactly one request with the alternate payload to the same model, and
\* that is the only place an alternate payload occurs; nothing is sent
\* after the attempt that gave an image.
C14_AttemptOrdering ==
    handler = "HuggingFace" =>
        /\ Len(hf.results) = Len(sent)
        /\ \A j \in Sent : IsManaged(sent[j]) =>
              /\ j <= 3
              /\ hf.client = "ok"
              /\ sent[j].to[2] = <<"timbrooks/instruct-pix2pix",
                                   "lllyasviel/sd-controlnet-canny",
                                   "stabilityai/stable-diffusion-xl-refiner-1.0">>[j]
        /\ \A j \in Sent : IsDirect(sent[j]) =>
              \/ hf.client = "raised" /\ \A m \in Sent : ~IsManaged(sent[m])
              \/ /\ j > 3
                 /\ \A m \in 1 .. 3 : IsManaged(sent[m]) /\ hf.results[m] # "image"
        /\ \A j \in Sent : (IsFirstShape(sent[j]) /\ hf.results[j] = "422") =>
              /\ j = Len(sent) => apc = "alternative"
              /\ j < Len(sent) => /\ IsAlternate(sent[j + 1])
                                  /\ sent[j + 1].to = sent[j].to
        /\ \A j \in Sent : IsAlternate(sent[j]) =>
              /\ j > 1
              /\ IsFirstShape(sent[j - 1])
              /\ sent[j - 1].to = sent[j].to
              /\ hf.results[j - 1] = "422"
        /\ \A j, m \in Sent :
              (j < m /\ IsFirstShape(sent[j]) /\ IsFirstShape(sent[m])) =>
                 /\ sent[j].to[2] = "timbrooks/instruct-pix2pix"
                 /\ sent[m].to[2] = "stabilityai/stable-diffusion-xl-refiner-1.0"
        /\ \A j \in Sent : hf.results[j] = "image" =>
              (j = Len(sent) /\ apc = "idle" /\ ret.success)

\* three managed attempts failed, the first direct model answered 422 twice,
\* the second answered 422 and then gave the image to the alternate payload
C14_Witness ==
    /\ handler = "HuggingFace"
    /\ apc = "idle"
    /\ ret.success
    /\ Len(sent) = 7
    /\ hf.results = <<"failed", "failed", "failed", "422", "failed", "422", "image">>

HFEnded == handler = "HuggingFace" /\ apc = "idle" /\ ret.kind # "none"

AttemptsBounded ==
    handler = "HuggingFace" =>
        /\ Len(sent) <= 7
        /\ hf.attempts = Len(sent)
        /\ \A j, m \in Sent :
              (j # m /\ IsManaged(sent[j]) /\ IsManaged(sent[m]))
                  => sent[j].to # sent[m].to
        /\ \A name \in {"timbrooks/instruct-pix2pix",
                        "stabilityai/stable-diffusion-xl-refiner-1.0"} :
              /\ Cardinality({j \in Sent : IsFirstShape(sent[j]) /\ sent[j].to[2] = name}) <= 1
              /\ Cardinality({j \in Sent : IsAlternate(sent[j]) /\ sent[j].to[2] = name}) <= 1
        /\ ret.kind # "raised"
        /\ HFEnded => (ret.kind = "returned" /\ ret.result.type \in {"image", "str"})

\* C16: a call of the Hugging Face adapter sends each managed-client model
\* at most one request and each direct model at most one request plus at
\* most one with the alternate payload, and every call that was entered
\* returns one outcome; no exception leaves the adapter.
C16_BoundedAndTerminates ==
    /\ []AttemptsBounded
    /\ (handler = "HuggingFace" /\ apc # "idle")
          ~> (apc = "idle" /\ ret.kind = "returned")

\* the longest call: seven requests of which none gave an image
C16_Witness ==
    /\ HFEnded
    /\ hf.attempts = 7
    /\ hf.results = <<"failed", "503", "failed", "422", "failed", "422", "503">>
    /\ ret.kind = "returned"

\* C17: in a Leonardo call the generation job is submitted only after the
\* upload was answered 200 with an init image id, the first status poll
\* happens only after the submission was answered 200 with a generation id,
\* and a failure of step 1 or step 2 returns Failure with no later step.
C17_ThreeStepOrdering ==
    handler = "Leonardo" =>
        /\ \A j \in Sent :
              /\ sent[j].to = "init-image" => j = 1
              /\ sent[j].to = "generations" =>
                    (j = 2 /\ leo.upload = "ok" /\ sent[1].to = "init-image")
        /\ (leo.sleeps > 0 \/ leo.reads > 0 \/ leo.downloads > 0 \/ apc = "poll") =>
              /\ leo.upload = "ok" /\ leo.submit = "ok"
              /\ Len(sent) >= 2
              /\ sent[1].to = "init-image" /\ sent[2].to = "generations"
        /\ leo.submit # "none" => (leo.upload = "ok" /\ Len(sent) >= 2)
        /\ leo.upload = "failed" =>
              /\ Len(sent) = 1 /\ leo.submit = "none"
              /\ leo.sleeps = 0 /\ leo.reads = 0 /\ leo.downloads = 0
              /\ apc = "idle" /\ ret.kind = "returned" /\ ~ret.success
        /\ leo.submit = "failed" =>
              /\ Len(sent) = 2
              /\ leo.sleeps = 0 /\ leo.reads = 0 /\ leo.downloads = 0
              /\ apc = "idle" /\ ret.kind = "returned" /\ ~ret.success

\* a submission answered 200 without a generation id ended the call
C17_Witness ==
    /\ LeoReturned
    /\ leo.upload = "ok"
    /\ leo.submit = "failed"
    /\ ret = Failure("Could not get generation ID.")
    /\ leo.reads = 0

\* the whole call of the adapter in use, for whole-call adapters
transform_image_of(h, a, r) ==
    IF h = "DeepAI" THEN deepai_transform_image(a, r)
    ELSE replicate_transform_image(a, r)

NegativeIgnoring ==
    /\ handler \in {"DeepAI", "Replicate"}
    /\ apc = "idle"
    /\ ret.kind # "none"
    /\ resp # NoResp

\* C18: the DeepAI and Replicate adapters do not read the negative prompt:
\* the call made with any other negative prompt, everything else and the
\* backend's answers being the same, sends the same requests and has the same
\* outcome, so a non-empty negative prompt is never the cause of an error.
C18_NegativePromptIgnored ==
    NegativeIgnoring =>
        /\ ret.kind = "returned"
        /\ \A n \in NegativePrompts :
              LET o == transform_image_of(handler, [call EXCEPT !.negative_prompt = n], resp)
              IN  /\ o.sent = sent
                  /\ o.ret = ret

\* a Replicate call with a negative prompt that succeeded
C18_Witness ==
    /\ NegativeIgnoring
    /\ handler = "Replicate"
    /\ call.negative_prompt = "blurry"
    /\ ret.success
    /\ "negative_prompt" \notin DOMAIN sent[1].payload

ReplicateSent == handler = "Replicate" /\ apc = "idle" /\ Len(sent) >= 1

\* C19: the guidance scale sent by the Replicate adapter is determined by
\* the strength of the call: some other strength would have sent another
\* guidance scale.
C19_GuidanceFollowsStrength ==
    ReplicateSent =>
        \E s \in Strengths :
            input_params([call EXCEPT !.strength = s]).guidance_scale
                # sent[1].payload.guidance_scale

\* C20: in the Leonardo poll loop each status read is preceded by exactly
\* one sleep of 2 seconds, at most one status read is outstanding, and at
\* most 60 status reads are issued, whatever the backend answers.
C20_PollLoopBounds ==
    handler = "Leonardo" =>
        /\ leo.outstanding \in {0, 1}
        /\ leo.outstanding = 1 <=> apc = "await"
        /\ leo.reads <= 60
        /\ leo.sleeps = (IF apc = "read" THEN leo.reads + 1 ELSE leo.reads)
        /\ leo.waited = 2 * leo.sleeps
        /\ leo.attempt = leo.sleeps

\* the sixtieth status read is outstanding after 120 seconds of sleep
C20_Witness ==
    /\ handler = "Leonardo"
    /\ apc = "await"
    /\ leo.reads = 60
    /\ leo.outstanding = 1
    /\ leo.waited = 120

StabilityAnswered == handler = "Stability" /\ apc = "idle" /\ resp # NoResp

\* the first artifact of a 200 answer has finishReason CONTENT_FILTERED
Filtered(r) ==
    /\ r.post_exc = "none"
    /\ r.status = 200
    /\ r.body \in {"CONTENT_FILTERED", "CONTENT_FILTERED with base64"}

\* C21: a 200 answer of Stability AI whose first artifact has finishReason
\* CONTENT_FILTERED gives the Failure with the content-filter message and no
\* image, also when the artifact carries base64 image data; no other answer
\* gives that message.
C21_ContentFiltered ==
    StabilityAnswered =>
        /\ Filtered(resp) =>
              ret = [kind |-> "returned", success |-> FALSE,
                     result |-> [type |-> "str",
                                 val |-> "Caught by content filter. Please change your prompt."]]
        /\ ~Filtered(resp) =>
              ret.result.val # "Caught by content filter. Please change your prompt."
        /\ \A r \in StabilityResponses :
              ~Filtered(r) =>
                  stability_transform_image(call, r).ret.result.val
                      # "Caught by content filter. Please change your prompt."

\* a filtered artifact that carries image data ended the call with the Failure
C21_Witness ==
    /\ StabilityAnswered
    /\ resp.body = "CONTENT_FILTERED with base64"
    /\ ~ret.success
    /\ ret.result.val = "Caught by content filter. Please change your prompt."

\* C22: every request of the Stability AI adapter carries the prompt, or the
\* default enhancement prompt when the prompt is empty, as text entry 0 with
\* weight +1.0; a second entry with weight -1.0 carrying the negative prompt
\* is there exactly when the negative prompt is not empty; there is no other
\* entry and no entry holds both prompts.
C22_WeightedTextEntries ==
    StabilitySent =>
        LET entries == sent[1].payload.text_prompts
        IN  /\ Len(entries) = (IF call.negative_prompt = "" THEN 1 ELSE 2)
            /\ entries[1].weight = 100
            /\ call.prompt # "" => entries[1].text = call.prompt
            /\ call.prompt = "" => entries[1].text = "high quality, detailed, improved"
            /\ call.negative_prompt # "" =>
                  /\ entries[2].weight = -100
                  /\ entries[2].text = call.negative_prompt
                  /\ entries[1].text # call.negative_prompt

\* the default prompt and a negative prompt, sent as two entries
C22_Witness ==
    /\ StabilitySent
    /\ call.prompt = ""
    /\ call.negative_prompt = "blurry"
    /\ Len(sent[1].payload.text_prompts) = 2
    /\ sent[1].payload.text_prompts[2] = [text |-> "blurry", weight |-> -100]

LocalEnded(t) == handler = "Local" /\ loc[t].pc = "idle" /\ loc[t].ret.kind # "none"

\* C23: a RuntimeError with "out of memory" in its text, raised while the
\* pipeline is loaded or during inference, makes the local transform_image
\* return the Failure with the insufficient-GPU-memory message, which no
\* other exception gives; nothing is raised to the caller and the adapter is
\* ready for the next call.
C23_OutOfMemoryRecoverable ==
    \A t \in threads :
        LocalEnded(t) =>
            /\ loc[t].ret.kind = "returned"
            /\ loc[t].raised = "out of memory" <=>
                  loc[t].ret = [kind |-> "returned", success |-> FALSE,
                      result |-> [type |-> "str",
                          val |-> "Insufficient GPU memory. Try a smaller image or lower the strength value."]]
            /\ loc[t].raised \in {"RuntimeError", "Exception"} =>
                  loc[t].ret.result.val \in {"GPU error: ", "Local inference error: "}

\* a call that succeeded after an earlier call had run out of memory
C23_Witness ==
    /\ LocalEnded(1)
    /\ loc[1].after_oom
    /\ loc[1].ret.success
    /\ loc[1].ret.result.type = "image"

\* the generation request of a DeepAI or Stability AI call was answered
\* with a status other than 200
StatusRefused ==
    /\ handler \in {"DeepAI", "Stability"}
    /\ apc = "idle"
    /\ resp # NoResp
    /\ resp.post_exc = "none"
    /\ resp.status # 200

\* C24: in the DeepAI and Stability AI adapters every non-200 answer to the
\* generation request gives a Failure and no further request; 401 gives the
\* invalid-credential message, 402 the credit message, 429 the rate-limit
\* message, and every other status a message that is none of these three.
C24_StatusNormalization ==
    StatusRefused =>
        LET kinds == IF handler = "DeepAI"
                     THEN <<"DeepAI API key is invalid. Check your key.",
                            "No credit in your DeepAI account. Check your subscription.",
                            "Rate limit exceeded. Wait a few seconds and try again.">>
                     ELSE <<"Stability AI API key is invalid. Check your key.",
                            "No credit in your Stability AI account. Check your billing settings.",
                            "Rate limit exceeded. Wait a few seconds and try again.">>
        IN  /\ ret.kind = "returned" /\ ~ret.success /\ ret.result.type = "str"
            /\ Len(sent) = 1
            /\ resp.status = 401 => ret.result.val = kinds[1]
            /\ resp.status = 402 => ret.result.val = kinds[2]
            /\ resp.status = 429 => ret.result.val = kinds[3]
            /\ resp.status \notin {401, 402, 429} =>
                  ret.result.val \notin {kinds[1], kinds[2], kinds[3]}

\* C25: a Replicate output that is a list whose first element is itself a
\* list holding an image or a URL is descended into and gives (True, image).
C25_NestedListNormalized ==
    (ReplicateAnswered /\ resp.run_exc = "none" /\ resp.output = "list_list") =>
        /\ ret.success
        /\ ret.result.type = "image"

C27_OriginalMatchesResults ==
    (pc = "idle" /\ Len(rendered) = 1) => rendered[1].src = original_image

\* the pipeline as load_pipeline returns it after a complete load
FullyLoaded == IF cuda THEN "ready" ELSE "moved"

\* C28: when load_pipeline has failed at any of its steps the cached
\* singleton is unset, so between calls it is either unset or completely
\* loaded, and no call runs the inference on a partially loaded pipeline.
C28_FailedLoadLeavesUnset ==
    handler = "Local" =>
        /\ (\A t \in threads : loc[t].pc = "idle") => _pipeline \in {None, FullyLoaded}
        /\ \A t \in threads : loc[t].pc = "infer" => loc[t].pipeline = FullyLoaded

StyleCallEnded ==
    /\ handler \in CloudAdapters
    /\ style_config # NoStyle
    /\ apc = "idle"
    /\ ret.kind # "none"

\* C29: transform_with_style(image_bytes, style_config) of every adapter is
\* the call of transform_image with the style's prompt, the style's strength
\* (0.6 when the style has none) and the style's negative prompt (empty when
\* the style has none), and it does not raise for a style that has a prompt.
C29_StyleEquivalence ==
    StyleCallEnded =>
        /\ ret.kind = "returned"
        /\ call.prompt = style_config.prompt
        /\ call.strength = (IF "strength" \in DOMAIN style_config
                            THEN style_config.strength ELSE 60)
        /\ call.negative_prompt = (IF "negative_prompt" \in DOMAIN style_config
                                   THEN style_config.negative_prompt ELSE "")

====
